---- MODULE Spec2Model ----
(***************************************************************************)
(* Model of the JPI flight-data decoder: the binary record decoder of      *)
(* src/src/data.rs (parse_binary_record and what it calls) and the ASCII   *)
(* header record parsers of src/src/headers.rs and src/src/main.rs.        *)
(*                                                                         *)
(* Bytes are integers 0..255, i16 values are integers -32768..32767, byte  *)
(* slices are sequences, fixed arrays are functions over 0..n-1.           *)
(***************************************************************************)
EXTENDS Integers, Sequences, FiniteSets, TLC

VARIABLES
    config,     \* ConfigInfo: feature_flags_lo, feature_flags_hi
    fheader,    \* flightheader: flags
    engines,    \* the value num_engines(config) returns
    cyls,       \* the value num_cyls(fheader.flags) returns
    build,      \* "debug" (overflow checks on) or "release" (overflow wraps)
    cur,        \* the binary_record the caller holds between calls
    prev,       \* the prev argument of the last parse_binary_record call
    input,      \* the input argument of the last parse_binary_record call
    result,     \* what the last parse_binary_record call did
    nframes,    \* number of parse_binary_record calls so far
    line,       \* the line given to the last parse_record call
    hresult     \* what the last parse_record call did

vars == <<config, fheader, engines, cyls, build, cur, prev, input, result,
          nframes, line, hresult>>

decoderVars == <<config, fheader, engines, cyls, build, cur, prev, input,
                 result, nframes>>

headerVars == <<line, hresult>>

\* ------------------------------------------------------------------ bounds

\* number of frames one flight decodes
MaxFrames == 2

\* number of bytes that may follow a frame in the input buffer
MaxTrail == 1

\* ------------------------------------------------------- integer helpers

\* an integer reduced to the i16 it wraps to
wrap16(v) == ((v + 32768) % 65536) - 32768

InI16(v) == v >= -32768 /\ v <= 32767

\* the i16 a u16 bit pattern is read as (x as i16)
as_i16(v) == wrap16(v)

RECURSIVE count_ones(_)
count_ones(x) == IF x = 0 THEN 0 ELSE (x % 2) + count_ones(x \div 2)

RECURSIVE trailing_zeros(_)
trailing_zeros(x) == IF x % 2 = 1 THEN 0 ELSE 1 + trailing_zeros(x \div 2)

RECURSIVE SumSeq(_)
SumSeq(s) == IF Len(s) = 0 THEN 0 ELSE Head(s) + SumSeq(Tail(s))

Min(a, b) == IF a < b THEN a ELSE b
Max(a, b) == IF a > b THEN a ELSE b

\* ----------------------------------------------------------- bit helpers

test_bit(x, bit) == ((x \div (2 ^ bit)) % 2) # 0

test_bit_slice(arr, bit) == test_bit(arr[bit \div 8], bit % 8)

clear_bit(x, bit) == IF test_bit(x, bit) THEN x - (2 ^ bit) ELSE x

clear_bit_slice(arr, bit) ==
    [arr EXCEPT ![bit \div 8] = clear_bit(@, bit % 8)]

set_bit(x, bit) == IF test_bit(x, bit) THEN x ELSE x + (2 ^ bit)

\* ------------------------------------------------------------- checksums

\* -(sum as i8) overflows for sum = 0x80: a panic with overflow checks on
calc_new_checksum_ones(data, bld) ==
    LET sum == SumSeq(data) % 256
    IN  [panic |-> FALSE, v |-> 255 - sum]

calc_new_checksum(data, bld) ==
    LET sum == SumSeq(data) % 256
    IN  IF sum = 128 /\ bld = "debug"
        THEN [panic |-> TRUE, v |-> 0]
        ELSE [panic |-> FALSE, v |-> (256 - sum) % 256]

calc_checksum(data, bld) == calc_new_checksum(data, bld)

\* ---------------------------------------------------------- configuration

\* headers::num_engines and headers::num_cyls are imported by data.rs but are
\* not part of the sources; the specification gives their ranges
\* (num_engines in {1, 2}, num_cyls in 1..6) and leaves the mapping from the
\* flag word open, so the value each returns is a parameter of the run.
num_engines(cfg) == engines

num_cyls(flags) == cyls

\* RPM_BIT = 1 << 26
has_rpm(header) == test_bit(header.flags, 26)

\* (feature_flags_hi << 16) | feature_flags_lo
composed_flags(cfg) == cfg.feature_flags_hi * 65536 + cfg.feature_flags_lo

\* offset from egt to regt
TWINJUMP == 3 * 8

\* positions of the named fields in data_record seen as [i16; 48]
HP_RT1 == 30
RPM == 41
RPM_HIGHBYTE_RCDT == 42

\* arithmetic with the plain operators (+, -, +=, -=, unary -) on i16: the
\* result wraps when overflow checks are off and panics when they are on
checked(v) == [panic |-> (~InI16(v)) /\ build = "debug", v |-> wrap16(v)]

\* the result of a step that may panic: why names the panic site
Fine(st) == [panic |-> FALSE, why |-> "", st |-> st]
Panicked(why, st) == [panic |-> TRUE, why |-> why, st |-> st]

\* ------------------------------------------------------------ SampleState

binary_record_new(cfg) ==
    [data    |-> [k \in 0..47 |->
                    IF num_engines(cfg) = 1 /\ k \in {HP_RT1, RPM_HIGHBYTE_RCDT}
                    THEN 0 ELSE 240],
     dif     |-> [k \in 0..1 |-> 0],
     naflags |-> [k \in 0..5 |-> 0]]

\* the loop over the cylinders of engine j; self.data.egt is [i16; 6], so
\* reading egt[idx] with idx >= 6 is an out-of-bounds panic
RECURSIVE egt_minmax(_, _, _, _, _, _)
egt_minmax(self, j, i, ncyls, emin, emax) ==
    IF i >= ncyls
    THEN [panic |-> FALSE, emin |-> emin, emax |-> emax]
    ELSE LET idx == IF i < 6 THEN i + j * TWINJUMP ELSE i - 6 + TWINJUMP
         IN  IF ~test_bit(self.naflags[idx \div 8], idx % 8)
             THEN IF idx >= 6
                  THEN [panic |-> TRUE, emin |-> emin, emax |-> emax]
                  ELSE egt_minmax(self, j, i + 1, ncyls,
                                  Min(emin, self.data[idx]),
                                  Max(emax, self.data[idx]))
             ELSE egt_minmax(self, j, i + 1, ncyls, emin, emax)

\* the loop over the engines: dif[j] = emax - emin
RECURSIVE calc_dif(_, _, _, _)
calc_dif(self, j, nengines, ncyls) ==
    IF j >= nengines
    THEN Fine(self)
    ELSE LET mm == egt_minmax(self, j, 0, ncyls, 32767, -1)
             d  == checked(mm.emax - mm.emin)
         IN  IF mm.panic THEN Panicked("egt_index", self)
             ELSE IF d.panic THEN Panicked("dif_overflow", self)
             ELSE calc_dif([self EXCEPT !.dif[j] = d.v], j + 1, nengines, ncyls)

\* rpm += rpm_highbyte << 8; rpm_highbyte = 0
rpm_merge_keep_high(self, header) ==
    IF has_rpm(header)
    THEN LET hi == as_i16((self.data[RPM_HIGHBYTE_RCDT] * 256) % 65536)
             r  == checked(self.data[RPM] + hi)
         IN  IF r.panic THEN Panicked("rpm_overflow", self)
             ELSE Fine([self EXCEPT !.data[RPM] = r.v])
    ELSE Fine(self)

rpm_merge(self, header) ==
    IF has_rpm(header)
    THEN LET hi == as_i16((self.data[RPM_HIGHBYTE_RCDT] * 256) % 65536)
             r  == checked(self.data[RPM] + hi)
         IN  IF r.panic THEN Panicked("rpm_overflow", self)
             ELSE Fine([self EXCEPT !.data[RPM] = r.v,
                                    !.data[RPM_HIGHBYTE_RCDT] = 0])
    ELSE Fine(self)

calcstuff(self, cfg, header) ==
    LET ncyls    == num_cyls(header.flags)
        nengines == num_engines(cfg)
    IN  IF ~(ncyls <= 6 \/ nengines = 1)
        THEN Panicked("cyls", self)
        ELSE LET d == calc_dif(self, 0, nengines, ncyls)
             IN  IF d.panic THEN d ELSE rpm_merge(d.st, header)

\* --------------------------------------------------------- frame parsing

\* nom's num::u8: one byte, or an error on empty input
u8(i) ==
    IF Len(i) = 0
    THEN [ok |-> FALSE, rest |-> i, v |-> 0]
    ELSE [ok |-> TRUE, rest |-> Tail(i), v |-> Head(i)]

\* nom's bytes::take(n): the first n bytes, or an error on shorter input
take(n, i) ==
    IF Len(i) < n
    THEN [ok |-> FALSE, rest |-> i, v |-> <<>>]
    ELSE [ok |-> TRUE, rest |-> SubSeq(i, n + 1, Len(i)), v |-> SubSeq(i, 1, n)]

\* three bytes, then the comparison of the two decode bytes
parse_data_header(i) ==
    LET d1 == u8(i)
        d2 == u8(d1.rest)
        rp == u8(d2.rest)
    IN  IF ~(d1.ok /\ d2.ok /\ rp.ok)
        THEN [kind |-> "Err", rest |-> i, decodeflags |-> <<0, 0>>,
              repeatcount |-> 0]
        ELSE IF d1.v # d2.v
        THEN [kind |-> "Panic", rest |-> i, decodeflags |-> <<d1.v, d2.v>>,
              repeatcount |-> rp.v]
        ELSE [kind |-> "Ok", rest |-> rp.rest, decodeflags |-> <<d1.v, d2.v>>,
              repeatcount |-> rp.v]

\* for bit in bits: if the bit is set in decodeflags, read out[bit - bits.start]
RECURSIVE parse_decode_bits(_, _, _, _, _, _)
parse_decode_bits(i, out, decodeflags, bit, start, end) ==
    IF bit >= end
    THEN [ok |-> TRUE, rest |-> i, out |-> out]
    ELSE IF test_bit(decodeflags, bit)
         THEN IF Len(i) = 0
              THEN [ok |-> FALSE, rest |-> i, out |-> out]
              ELSE parse_decode_bits(Tail(i), [out EXCEPT ![bit - start] = Head(i)],
                                     decodeflags, bit + 1, start, end)
         ELSE parse_decode_bits(i, out, decodeflags, bit + 1, start, end)

\* field_flags.iter().map(|x| x.count_ones()).sum()
sum_count_ones(flags, n) == SumSeq([k \in 1..n |-> count_ones(flags[k - 1])])

\* the NA update of a field delta
field_na(na, bit, diff) ==
    IF diff # 0 THEN set_bit(na, bit) ELSE clear_bit(na, bit)

\* the while loop over the set bits of field_flags[i]
RECURSIVE apply_field_group(_, _, _, _, _, _)
apply_field_group(out, i, flag, sign_flags, field_dif, field_dif_idx) ==
    IF flag = 0
    THEN [out |-> out, field_dif_idx |-> field_dif_idx]
    ELSE LET bit  == trailing_zeros(flag)
             sign == test_bit(sign_flags[i], bit)
             idx  == (i * 8) + bit
             diff == field_dif[field_dif_idx + 1]
             na   == field_na(out.naflags[i], bit, diff)
             v    == IF sign THEN wrap16(out.data[idx] - diff)
                             ELSE wrap16(out.data[idx] + diff)
         IN  apply_field_group([out EXCEPT !.naflags[i] = na, !.data[idx] = v],
                               i, clear_bit(flag, bit), sign_flags, field_dif,
                               field_dif_idx + 1)

\* for i in 0..field_flags.len()
RECURSIVE apply_field_dif(_, _, _, _, _, _)
apply_field_dif(out, i, field_flags, sign_flags, field_dif, field_dif_idx) ==
    IF i >= 6
    THEN out
    ELSE LET g == apply_field_group(out, i, field_flags[i], sign_flags,
                                    field_dif, field_dif_idx)
         IN  apply_field_dif(g.out, i + 1, field_flags, sign_flags, field_dif,
                             g.field_dif_idx)

\* the field a scale bit targets, with the groups taken as adjacent
scale_idx_adjacent(f, bit) == f * 8 + bit

\* let idx = f as u32 * TWINJUMP + bit
scale_idx(f, bit) == f * TWINJUMP + bit

\* the two loops over scale_flags, flattened: n = f * 8 + bit
RECURSIVE apply_scale_dif(_, _, _, _, _, _)
apply_scale_dif(out, n, scale_flags, sign_flags, scale_dif, scale_dif_idx) ==
    IF n >= 16
    THEN Fine(out)
    ELSE LET f   == n \div 8
             bit == n % 8
         IN  IF test_bit(scale_flags[f], bit)
             THEN LET idx == scale_idx(f, bit)
                      x0  == scale_dif[scale_dif_idx + 1]
                      x   == as_i16((x0 * 256) % 65536)
                      r   == IF test_bit_slice(sign_flags, idx)
                             THEN checked(out.data[idx] - x)
                             ELSE checked(out.data[idx] + x)
                  IN  IF x0 # 0
                      THEN IF r.panic
                           THEN Panicked("scale_overflow", out)
                           ELSE apply_scale_dif(
                                    [out EXCEPT !.naflags = clear_bit_slice(@, idx),
                                                !.data[idx] = r.v],
                                    n + 1, scale_flags, sign_flags, scale_dif,
                                    scale_dif_idx + 1)
                      ELSE apply_scale_dif(out, n + 1, scale_flags, sign_flags,
                                           scale_dif, scale_dif_idx + 1)
             ELSE apply_scale_dif(out, n + 1, scale_flags, sign_flags, scale_dif,
                                  scale_dif_idx)

\* the rpm_highbyte negation without the update of the rpm NA bit
rpm_quirk_keep_na(out, cfg, sign_flags) ==
    IF num_engines(cfg) = 1 /\ test_bit(sign_flags[5], 1)
    THEN IF test_bit(sign_flags[5], 2)
         THEN Panicked("rpm_sign", out)
         ELSE LET neg == checked(0 - out.data[RPM_HIGHBYTE_RCDT])
              IN  IF neg.panic THEN Panicked("neg_overflow", out)
                  ELSE Fine([out EXCEPT !.data[RPM_HIGHBYTE_RCDT] = neg.v])
    ELSE Fine(out)

\* the single-engine rpm_highbyte negation
rpm_quirk(out, cfg, sign_flags) ==
    IF num_engines(cfg) = 1 /\ test_bit(sign_flags[5], 1)
    THEN IF test_bit(sign_flags[5], 2)
         THEN Panicked("rpm_sign", out)
         ELSE LET neg == checked(0 - out.data[RPM_HIGHBYTE_RCDT])
              IN  IF neg.panic THEN Panicked("neg_overflow", out)
                  ELSE Fine([out EXCEPT
                               !.data[RPM_HIGHBYTE_RCDT] = neg.v,
                               !.naflags[5] = IF neg.v # 0 THEN clear_bit(@, 1)
                                                           ELSE @])
    ELSE Fine(out)

\* assert!(scale_flags[1] == 0 || num_engines(config) == 1)
scale_flags_assert(scale_flags, cfg) ==
    scale_flags[1] = 0 \/ num_engines(cfg) = 1

\* what a call returns: kind is "Ok" (Ok((rest, out))), "Err" (a nom error)
\* or "Panic" (the call does not return); why names the failing check;
\* precalc is the local `out` as it is when calcstuff is called
Outcome(kind, why, rest, out, precalc) ==
    [kind |-> kind, why |-> why, rest |-> rest, out |-> out,
     precalc |-> precalc]

\* a repeat frame: unimplemented!() for a count above 1, else the prior state
repeat_frame_fresh(prv, i, header, cfg) ==
    IF header.repeatcount > 1
    THEN Outcome("Panic", "repeat", i, prv, prv)
    ELSE Outcome("Ok", "", i, binary_record_new(cfg), prv)

repeat_frame(prv, i, header, cfg) ==
    IF header.repeatcount > 1
    THEN Outcome("Panic", "repeat", i, prv, prv)
    ELSE Outcome("Ok", "", i, prv, prv)

\* a variant that leaves the checksum byte in the remaining input
verify_checksum_unconsumed(inp, i, out, precalc) ==
    LET ck         == u8(i)
        all_bytes  == SubSeq(inp, 1, Len(inp) - Len(i))
        calculated == calc_checksum(all_bytes, build)
    IN  IF ~ck.ok THEN Outcome("Err", "eof", inp, out, precalc)
        ELSE IF calculated.panic
        THEN Outcome("Panic", "checksum_overflow", inp, out, precalc)
        ELSE IF ck.v # calculated.v
        THEN Outcome("Panic", "checksum", inp, out, precalc)
        ELSE Outcome("Ok", "", i, out, precalc)

\* the tail of parse_binary_record: the checksum byte and its verification
\* over the bytes from the start of input up to the checksum byte
verify_checksum(inp, i, out, precalc) ==
    LET ck         == u8(i)
        all_bytes  == SubSeq(inp, 1, Len(inp) - Len(i))
        calculated == calc_checksum(all_bytes, build)
    IN  IF ~ck.ok THEN Outcome("Err", "eof", inp, out, precalc)
        ELSE IF calculated.panic
        THEN Outcome("Panic", "checksum_overflow", inp, out, precalc)
        ELSE IF ck.v # calculated.v
        THEN Outcome("Panic", "checksum", inp, out, precalc)
        ELSE Outcome("Ok", "", ck.rest, out, precalc)

\* the deltas, the rpm quirk and calcstuff applied to a copy of prev
apply_frame(prv, field_flags, scale_flags, sign_flags, field_dif, scale_dif, cfg, header) ==
    LET fd == apply_field_dif(prv, 0, field_flags, sign_flags, field_dif, 0)
        sd == apply_scale_dif(fd, 0, scale_flags, sign_flags, scale_dif, 0)
        q  == IF sd.panic THEN sd ELSE rpm_quirk(sd.st, cfg, sign_flags)
        c  == IF q.panic THEN q ELSE calcstuff(q.st, cfg, header)
    IN  [panic |-> c.panic, why |-> c.why, st |-> c.st, precalc |-> q.st]

\* decodeflags is 1-indexed here: decodeflags[1] is the source's decodeflags[0]
parse_binary_record(prv, inp, cfg, header) ==
    IF composed_flags(cfg) # header.flags
    THEN Outcome("Panic", "flags", inp, prv, prv)
    ELSE
    LET h == parse_data_header(inp)
    IN  IF h.kind = "Err" THEN Outcome("Err", "eof", inp, prv, prv)
        ELSE IF h.kind = "Panic" THEN Outcome("Panic", "decode", inp, prv, prv)
        ELSE IF h.repeatcount # 0 THEN repeat_frame(prv, h.rest, h, cfg)
        ELSE
        LET zero6 == [k \in 0..5 |-> 0]
            zero2 == [k \in 0..1 |-> 0]
            ff == parse_decode_bits(h.rest, zero6, h.decodeflags[1], 0, 0, 6)
            sf == parse_decode_bits(ff.rest, zero2, h.decodeflags[1], 6, 6, 8)
            sg == parse_decode_bits(sf.rest, zero6, h.decodeflags[1], 0, 0, 6)
        IN  IF ~(ff.ok /\ sf.ok /\ sg.ok)
            THEN Outcome("Err", "eof", inp, prv, prv)
            ELSE IF ~scale_flags_assert(sf.out, cfg)
            THEN Outcome("Panic", "scale_flags", inp, prv, prv)
            ELSE
            LET num_fields == sum_count_ones(ff.out, 6)
                field_dif  == take(num_fields, sg.rest)
                num_scale  == sum_count_ones(sf.out, 2)
                scale_dif  == take(num_scale, field_dif.rest)
            IN  IF ~(field_dif.ok /\ scale_dif.ok)
                THEN Outcome("Err", "eof", inp, prv, prv)
                ELSE
                LET a == apply_frame(prv, ff.out, sf.out, sg.out, field_dif.v,
                                     scale_dif.v, cfg, header)
                IN  IF a.panic THEN Outcome("Panic", a.why, inp, prv, a.precalc)
                    ELSE verify_checksum(inp, scale_dif.rest, a.st, a.precalc)

\* ------------------------------------------------------ the byte source

\* decode bytes: 0x01, 0x08, 0x20 (one field group), 0x41 (field group 0 and
\* scale group 0), 0x88 (field group 3 and scale group 1)
DecodeBytes == {1, 8, 32, 65, 136}

\* the values a flag byte, a delta byte and the configuration take
FieldFlagVals == {1, 6}
ScaleFlagVals == {0, 1}
SignFlagVals == {0, 1, 2, 6}
FieldDifVals == {0, 128}
ScaleDifVals == {0, 127, 128}
EngineCylVals == {<<1, 3>>, <<2, 1>>}
BuildVals == {"debug", "release"}
FlagsHiVals == {0, 1024}
HeaderFlagVals == {0, 67108864}

\* the frame layout: the checksum byte of a frame body
sum8_neg(bytes) == (256 - (SumSeq(bytes) % 256)) % 256

SumOnes(bytes) == SumSeq([k \in 1..Len(bytes) |-> count_ones(bytes[k])])

\* only the sign bits of fields the frame touches vary
SignsFor(flag) == {sg \in SignFlagVals : (sg = 0) \/ (flag % 2 = sg % 2)}

SignBytes(ff) ==
    { sg \in [1..Len(ff) -> SignFlagVals] :
        \A k \in 1..Len(ff) : sg[k] \in SignsFor(ff[k]) }

\* the bytes between the three header bytes and the checksum, for decode byte d
Bodies(d) ==
    LET nf == count_ones(d % 64)
        ns == count_ones(d \div 64)
    IN  UNION { UNION { { ff \o sf \o sg \o fd \o sd :
                            fd \in [1..SumOnes(ff) -> FieldDifVals],
                            sd \in [1..SumOnes(sf) -> ScaleDifVals] } :
                        sg \in SignBytes(ff) } :
                ff \in [1..nf -> FieldFlagVals],
                sf \in [1..ns -> ScaleFlagVals] }

WithSum(bytes, delta) == bytes \o <<(sum8_neg(bytes) + delta) % 256>>

\* well-formed non-repeat frames
GoodFrames ==
    UNION { { WithSum(<<d, d, 0>> \o b, 0) : b \in Bodies(d) } : d \in DecodeBytes }

\* frames with a wrong checksum byte, unequal decode bytes, a repeat count
BadSumFrames == { WithSum(<<1, 1, 0>> \o b, 255) : b \in Bodies(1) }

MismatchFrames == { WithSum(<<1, 8, 0>> \o b, 0) : b \in Bodies(1) }

RepeatFrames == { <<d, d, r>> : d \in DecodeBytes, r \in 1..2 }

Prefixes(S) == UNION { { SubSeq(f, 1, n) : n \in 0..(Len(f) - 1) } : f \in S }

ShortFrames == Prefixes({ WithSum(<<65, 65, 0, 6, 1, 0, 128, 0, 127>>, 0) })

TrailedFrames == { WithSum(<<32, 32, 0>> \o b, 0) : b \in Bodies(32) }

\* decode 0xC1: field group 0 and both scale groups; field_flags[0] = 0x01,
\* scale_flags = 0x03 0x01, so three scale delta bytes for fields 0, 1, 24
ScaleDifSeqs ==
    {<<0, 0, 0>>, <<1, 2, 3>>, <<1, 0, 2>>, <<0, 3, 0>>, <<128, 127, 0>>}

ScaleFrames ==
    { WithSum(<<193, 193, 0, 1, 3, 1, sg, 128>> \o sd, 0) :
        sg \in 0..3, sd \in ScaleDifSeqs }

\* decode 0x01, field_flags[0] = 0x01, sign_flags[0] = 0x00, field_dif 0x10
ExampleFrame == WithSum(<<1, 1, 0, 1, 0, 16>>, 0)

FullTrail == [k \in 1..MaxTrail |-> 85]

Trails == UNION { [1..n -> {85}] : n \in 0..MaxTrail }

\* a frame is followed by the next bytes of the buffer; some frames also
\* come with every shorter trail, down to the end of the buffer
Inputs ==
    { f \o FullTrail : f \in GoodFrames \cup BadSumFrames \cup MismatchFrames }
    \cup { f \o t : f \in RepeatFrames \cup TrailedFrames, t \in Trails }
    \cup ShortFrames
    \cup { ExampleFrame \o FullTrail }
    \cup { f \o FullTrail : f \in ScaleFrames }

\* ------------------------------------------------------------ the decoder

NoOutcome(st) == Outcome("None", "", <<>>, st, st)

DecoderInit ==
    /\ config \in [feature_flags_lo : {0}, feature_flags_hi : FlagsHiVals]
    /\ fheader \in [flags : HeaderFlagVals]
    /\ \E ec \in EngineCylVals : engines = ec[1] /\ cyls = ec[2]
    /\ build \in BuildVals
    /\ cur = binary_record_new(config)
    /\ prev = cur
    /\ input = <<>>
    /\ result = NoOutcome(cur)
    /\ nframes = 0

\* one call of parse_binary_record on the state the caller holds; the caller
\* keeps the returned state and stops at the first error or panic
Decode ==
    /\ result.kind \in {"None", "Ok"}
    /\ nframes < MaxFrames
    /\ \E inp \in Inputs :
          \E r \in {parse_binary_record(cur, inp, config, fheader)} :
              /\ input' = inp
              /\ prev' = cur
              /\ result' = r
              /\ cur' = IF r.kind = "Ok" THEN r.out ELSE cur
    /\ nframes' = nframes + 1
    /\ UNCHANGED <<config, fheader, engines, cyls, build>>
    /\ UNCHANGED headerVars

\* ------------------------------------------------- ASCII header records
\* A line is a sequence of character codes (all the lines here are ASCII, so
\* a char and a byte are the same thing).

RECURSIVE bitxor(_, _)
bitxor(a, b) ==
    IF a = 0 THEN b
    ELSE IF b = 0 THEN a
    ELSE ((a + b) % 2) + 2 * bitxor(a \div 2, b \div 2)

\* bytes().fold(0u8, u8::bitxor)
RECURSIVE fold_bitxor(_)
fold_bitxor(bytes) ==
    IF Len(bytes) = 0 THEN 0 ELSE bitxor(Head(bytes), fold_bitxor(Tail(bytes)))

\* char::to_digit(16): -1 stands for None
to_digit16(c) ==
    IF c >= 48 /\ c <= 57 THEN c - 48
    ELSE IF c >= 65 /\ c <= 70 THEN c - 55
    ELSE IF c >= 97 /\ c <= 102 THEN c - 87
    ELSE -1

\* u8::from_str_radix(s, 16) on a two-character string: a leading '+' is
\* accepted, every other character must be a hex digit
from_str_radix16(s) ==
    LET digs == IF s[1] = 43 THEN <<s[2]>> ELSE s
        ok   == \A k \in 1..Len(digs) : to_digit16(digs[k]) >= 0
    IN  [ok |-> ok,
         v  |-> IF ~ok THEN 0
                ELSE IF Len(digs) = 1 THEN to_digit16(digs[1])
                ELSE 16 * to_digit16(digs[1]) + to_digit16(digs[2])]

\* take_until("*"): the position of the first '*', 0 when there is none
RECURSIVE find_star(_, _)
find_star(i, k) ==
    IF k > Len(i) THEN 0 ELSE IF i[k] = 42 THEN k ELSE find_star(i, k + 1)

\* space0: spaces and tabs
RECURSIVE space0(_)
space0(i) ==
    IF Len(i) > 0 /\ Head(i) \in {32, 9} THEN space0(Tail(i)) ELSE i

\* complete::u16: one or more decimal digits, an error when the value does
\* not fit in 16 bits
RECURSIVE parse_u16(_, _, _)
parse_u16(i, acc, n) ==
    IF Len(i) > 0 /\ Head(i) >= 48 /\ Head(i) <= 57
    THEN LET v == acc * 10 + (Head(i) - 48)
         IN  IF v > 65535 THEN [ok |-> FALSE, rest |-> i, v |-> 0]
             ELSE parse_u16(Tail(i), v, n + 1)
    ELSE [ok |-> n > 0, rest |-> i, v |-> acc]

\* delimited(space0, u16, pair(space0, alt((tag(","), eof))))
parse_short(i) ==
    LET d  == parse_u16(space0(i), 0, 0)
        s2 == space0(d.rest)
    IN  IF ~d.ok THEN [ok |-> FALSE, rest |-> i, v |-> 0]
        ELSE IF Len(s2) = 0 THEN [ok |-> TRUE, rest |-> s2, v |-> d.v]
        ELSE IF Head(s2) = 44 THEN [ok |-> TRUE, rest |-> Tail(s2), v |-> d.v]
        ELSE [ok |-> FALSE, rest |-> i, v |-> 0]

\* n calls of parse_short in a row, as the record parsers make them
RECURSIVE parse_shorts(_, _, _)
parse_shorts(i, n, acc) ==
    IF n = 0 THEN [ok |-> TRUE, rest |-> i, v |-> acc]
    ELSE LET r == parse_short(i)
         IN  IF ~r.ok THEN [ok |-> FALSE, rest |-> i, v |-> acc]
             ELSE parse_shorts(r.rest, n - 1, Append(acc, r.v))

\* is_not("_"): the longest prefix without '_', an error when it is empty
RECURSIVE not_underscore_len(_, _)
not_underscore_len(i, k) ==
    IF k < Len(i) /\ i[k + 1] # 95 THEN not_underscore_len(i, k + 1) ELSE k

tail_number_parser(i) ==
    LET n == not_underscore_len(i, 0)
    IN  [ok |-> n > 0, rest |-> SubSeq(i, n + 1, Len(i)), v |-> SubSeq(i, 1, n)]

configured_limits_parser(i) == parse_shorts(i, 8, <<>>)
fuel_flow_parser(i) == parse_shorts(i, 5, <<>>)
timestamp_parser(i) == parse_shorts(i, 6, <<>>)
config_info_parser(i) == parse_shorts(i, 5, <<>>)
flight_info_parser(i) == parse_shorts(i, 2, <<>>)
last_header_record_parser(i) == parse_shorts(i, 1, <<>>)

HOutcome(kind, rest, variant, fields) ==
    [kind |-> kind, rest |-> rest, variant |-> variant, fields |-> fields]

\* the match on the record type letter: U A F T C D L, else the given error
dispatch(record_type, data, whole, unknown_kind) ==
    LET r == CASE record_type = 85 -> tail_number_parser(data)
               [] record_type = 65 -> configured_limits_parser(data)
               [] record_type = 70 -> fuel_flow_parser(data)
               [] record_type = 84 -> timestamp_parser(data)
               [] record_type = 67 -> config_info_parser(data)
               [] record_type = 68 -> flight_info_parser(data)
               [] record_type = 76 -> last_header_record_parser(data)
               [] OTHER -> [ok |-> FALSE, rest |-> whole, v |-> <<>>]
    IN  IF record_type \notin {85, 65, 70, 84, 67, 68, 76}
        THEN HOutcome(unknown_kind, whole, record_type, <<>>)
        ELSE IF r.ok THEN HOutcome("Ok", r.rest, record_type, r.v)
        ELSE HOutcome("Err", data, record_type, <<>>)

\* headers.rs: '$', the text up to '*', '*', two hex digits; then the type
\* letter and ',' at the start of that text; then the checksum over all of it
header_record_parser(ln) ==
    LET star   == find_star(ln, 2)
        middle == SubSeq(ln, 2, star - 1)
        after  == SubSeq(ln, star + 1, Len(ln))
        hex    == from_str_radix16(SubSeq(after, 1, 2))
    IN  IF Len(ln) = 0 \/ ln[1] # 36 THEN HOutcome("Err", ln, 0, <<>>)
        ELSE IF star = 0 THEN HOutcome("Err", ln, 0, <<>>)
        ELSE IF Len(after) < 2 THEN HOutcome("Err", ln, 0, <<>>)
        ELSE IF ~hex.ok THEN HOutcome("Err", ln, 0, <<>>)
        ELSE IF Len(middle) = 0 THEN HOutcome("Err", ln, 0, <<>>)
        ELSE IF Len(middle) < 2 \/ middle[2] # 44 THEN HOutcome("Err", ln, 0, <<>>)
        ELSE IF fold_bitxor(middle) # hex.v THEN HOutcome("Failure", ln, 0, <<>>)
        ELSE HOutcome("Ok", SubSeq(after, 3, Len(after)), middle[1],
                      SubSeq(middle, 3, Len(middle)))

\* headers.rs: all_consuming(header_record_parser), then the dispatch
parse_record(ln) ==
    LET h == header_record_parser(ln)
    IN  IF h.kind # "Ok" THEN h
        ELSE IF Len(h.rest) # 0 THEN HOutcome("Err", h.rest, 0, <<>>)
        ELSE dispatch(h.variant, h.fields, ln, "Failure")

\* main.rs: '$', the type letter, ',', the text up to '*', '*', two
\* characters; from_hex(..).unwrap() panics on a bad hex pair; an equal
\* checksum only prints, an unequal one changes nothing
main_header_record_parser(ln) ==
    LET star          == find_star(ln, 4)
        header_record == SubSeq(ln, 4, star - 1)
        after         == SubSeq(ln, star + 1, Len(ln))
        hex           == from_str_radix16(SubSeq(after, 1, 2))
    IN  IF Len(ln) = 0 \/ ln[1] # 36 THEN HOutcome("Err", ln, 0, <<>>)
        ELSE IF Len(ln) < 2 THEN HOutcome("Err", ln, 0, <<>>)
        ELSE IF Len(ln) < 3 \/ ln[3] # 44 THEN HOutcome("Err", ln, 0, <<>>)
        ELSE IF star = 0 THEN HOutcome("Err", ln, 0, <<>>)
        ELSE IF Len(after) < 2 THEN HOutcome("Err", ln, 0, <<>>)
        ELSE IF ~hex.ok THEN HOutcome("Panic", ln, 0, <<>>)
        ELSE HOutcome("Ok", SubSeq(after, 3, Len(after)), ln[2], header_record)

\* main.rs: header_record_parser, then the dispatch
main_parse_record(ln) ==
    LET h == main_header_record_parser(ln)
    IN  IF h.kind # "Ok" THEN h
        ELSE dispatch(h.variant, h.fields, ln, "Err")

\* ------------------------------------------------------ the header lines

\* type letter and payload of the lines:
\*   A  '155,130,400,415, 60,1650,220, 75'
\*   F  '0, 49, 22,3183,3183'
\*   T  ' 5,13, 5,23, 2, 2222'
\*   C  ' 700,63741, 6193, 1552, 292'
\*   D  '  227, 3979'
\*   L  ' 49'
\*   U  'N51SW__'
\*   X  ' 49'
\*   L  '65536'
\*   D  ' 7'
TypedPayloads ==
    { <<65, <<49, 53, 53, 44, 49, 51, 48, 44, 52, 48, 48, 44, 52, 49, 53, 44, 32, 54, 48, 44, 49, 54, 53, 48, 44, 50, 50, 48, 44, 32, 55, 53>>>>,
      <<70, <<48, 44, 32, 52, 57, 44, 32, 50, 50, 44, 51, 49, 56, 51, 44, 51, 49, 56, 51>>>>,
      <<84, <<32, 53, 44, 49, 51, 44, 32, 53, 44, 50, 51, 44, 32, 50, 44, 32, 50, 50, 50, 50>>>>,
      <<67, <<32, 55, 48, 48, 44, 54, 51, 55, 52, 49, 44, 32, 54, 49, 57, 51, 44, 32, 49, 53, 53, 50, 44, 32, 50, 57, 50>>>>,
      <<68, <<32, 32, 50, 50, 55, 44, 32, 51, 57, 55, 57>>>>,
      <<76, <<32, 52, 57>>>>,
      <<85, <<78, 53, 49, 83, 87, 95, 95>>>>,
      <<88, <<32, 52, 57>>>>,
      <<76, <<54, 53, 53, 51, 54>>>>,
      <<68, <<32, 55>>>> }

\* the characters a checksum digit is drawn from: 0 3 4 5 6 7 8 9 D
HexDigitVals == {48, 51, 52, 53, 54, 55, 56, 57, 68}

\* what follows the two checksum digits: nothing, or a carriage return
LineEndVals == {<<>>, <<13>>}

Lines ==
    { <<36, tp[1], 44>> \o tp[2] \o <<42, h1, h2>> \o e :
        tp \in TypedPayloads, h1 \in HexDigitVals, h2 \in HexDigitVals,
        e \in LineEndVals }

HeaderInit ==
    /\ line = <<>>
    /\ hresult = [by |-> "none", r |-> HOutcome("None", <<>>, 0, <<>>)]

\* parse_record of headers.rs on a line; a call keeps no state, so a run
\* makes one call
HeadersParseRecord ==
    /\ hresult.by = "none"
    /\ \E ln \in Lines :
          /\ line' = ln
          /\ hresult' = [by |-> "headers", r |-> parse_record(ln)]
    /\ UNCHANGED decoderVars

\* parse_record of main.rs on a line
MainParseRecord ==
    /\ hresult.by = "none"
    /\ \E ln \in Lines :
          /\ line' = ln
          /\ hresult' = [by |-> "main", r |-> main_parse_record(ln)]
    /\ UNCHANGED decoderVars


Init ==
    /\ DecoderInit
    /\ HeaderInit

Next == Decode

\* the binary record decoder
Spec == Init /\ [][Next]_vars

HdrInit ==
    /\ config = [feature_flags_lo |-> 0, feature_flags_hi |-> 0]
    /\ fheader = [flags |-> 0]
    /\ engines = 1
    /\ cyls = 1
    /\ build = "release"
    /\ cur = binary_record_new(config)
    /\ prev = cur
    /\ input = <<>>
    /\ result = NoOutcome(cur)
    /\ nframes = 0
    /\ HeaderInit

HdrNext == HeadersParseRecord \/ MainParseRecord

\* the header record parsers
SpecHdr == HdrInit /\ [][HdrNext]_vars

\* ------------------------------------------------------------------------
\* The frame layout, read off the input by position:
\*   decode[0] decode[1] repeat field_flags[nf] scale_flags[ns] sign_flags[nf]
\*   field_dif[F] scale_dif[S] checksum
\* ------------------------------------------------------------------------

FrameNf(inp) == count_ones(inp[1] % 64)
FrameNs(inp) == count_ones(inp[1] \div 64)

\* the number of set bits of mask below position bit
BitsBelow(mask, bit) == count_ones(mask % (2 ^ bit))

FieldFlagOf(inp, g) ==
    IF test_bit(inp[1], g) THEN inp[3 + BitsBelow(inp[1], g) + 1] ELSE 0

ScaleFlagOf(inp, g) ==
    IF test_bit(inp[1], 6 + g)
    THEN inp[3 + FrameNf(inp) + BitsBelow(inp[1] \div 64, g) + 1]
    ELSE 0

SignFlagOf(inp, g) ==
    IF test_bit(inp[1], g)
    THEN inp[3 + FrameNf(inp) + FrameNs(inp) + BitsBelow(inp[1], g) + 1]
    ELSE 0

FieldTouched(inp, idx) == test_bit(FieldFlagOf(inp, idx \div 8), idx % 8)

ScaleTouched(inp, idx) ==
    \E g \in 0..1 : \E b \in 0..7 :
        idx = g * 24 + b /\ test_bit(ScaleFlagOf(inp, g), b)

FrameF(inp) == Cardinality({idx \in 0..47 : FieldTouched(inp, idx)})
FrameS(inp) == Cardinality({idx \in 0..47 : ScaleTouched(inp, idx)})

FlagsEnd(inp) == 3 + FrameNf(inp) + FrameNs(inp) + FrameNf(inp)

FrameLen(inp) == FlagsEnd(inp) + FrameF(inp) + FrameS(inp) + 1

FieldDifOf(inp, idx) ==
    inp[FlagsEnd(inp) + Cardinality({k \in 0..(idx - 1) : FieldTouched(inp, k)}) + 1]

ScaleDifOf(inp, idx) ==
    inp[FlagsEnd(inp) + FrameF(inp)
        + Cardinality({k \in 0..(idx - 1) : ScaleTouched(inp, k)}) + 1]

\* the input holds the three header bytes and every flag byte of the frame
HasFlags(inp) == Len(inp) >= 3 /\ Len(inp) >= FlagsEnd(inp)

\* parse_binary_record has been called
Called == nframes > 0

\* the flight header's flags are the configuration's
FlagsAgree == composed_flags(config) = fheader.flags

\* the last call decoded a non-repeat frame and returned a state
DecodedNonRepeat == result.kind = "Ok" /\ input[3] = 0

\* the last call was given a repeat frame (count 1) with equal decode bytes
RepeatCall ==
    /\ Called /\ FlagsAgree
    /\ Len(input) >= 3 /\ input[1] = input[2] /\ input[3] = 1

\* the single-engine RPM rule applies to the frame
QuirkApplies(inp) == engines = 1 /\ test_bit(SignFlagOf(inp, 5), 1)

SetMax(S) == CHOOSE m \in S : \A v \in S : v <= m
SetMin(S) == CHOOSE m \in S : \A v \in S : m <= v

\* ------------------------------------------------------------------ C1
\* C1: after a non-repeat frame is decoded, every field the frame's
\* field_flags select has its NA bit clear when its delta byte is non-zero,
\* and set when its delta byte is zero and no non-zero scale delta of the
\* frame targets it. (The RPM field is left out when the single-engine RPM
\* rule applies, which may clear its NA bit afterwards.)
C1_NACoherence ==
    DecodedNonRepeat =>
        \A idx \in 0..47 :
            (FieldTouched(input, idx) /\ ~(idx = RPM /\ QuirkApplies(input))) =>
                LET d      == FieldDifOf(input, idx)
                    scaled == ScaleTouched(input, idx) /\ ScaleDifOf(input, idx) # 0
                    na     == test_bit_slice(result.out.naflags, idx)
                IN  /\ (d # 0 => ~na)
                    /\ ((d = 0 /\ ~scaled) => na)

\* ------------------------------------------------------------------ C2
\* C2: with one engine, a non-repeat frame whose second scale-flags byte is
\* non-zero is rejected; a frame is rejected on the grounds of that byte
\* only then (never when the byte is zero, never with two engines).
C2_SingleEngineScaleFlags ==
    (Called /\ FlagsAgree /\ HasFlags(input) /\ input[1] = input[2]
        /\ input[3] = 0) =>
        /\ (engines = 1 /\ ScaleFlagOf(input, 1) # 0) => result.kind # "Ok"
        /\ result.why = "scale_flags" =>
               (engines = 1 /\ ScaleFlagOf(input, 1) # 0)

\* ------------------------------------------------------------------ C3
\* C3: a frame with equal decode bytes and repeat = 1 returns the prior
\* state unchanged (fields, naflags, dif), whatever bytes follow the header.
C3_RepeatIdentity ==
    RepeatCall => (result.kind = "Ok" /\ result.out = prev /\ cur = prev)

\* a repeat frame followed by more bytes, decoded on a state that an
\* earlier frame has changed
C3_Witness ==
    /\ RepeatCall
    /\ result.kind = "Ok"
    /\ Len(input) > 3
    /\ prev # binary_record_new(config)
    /\ \E g \in 0..5 : prev.naflags[g] # 0

\* ------------------------------------------------------------------ C4
\* C4: a successful call consumes exactly 3 bytes of a repeat frame and
\* exactly 3 + nf + ns + nf + F + S + 1 bytes of a non-repeat frame, and
\* returns the input with exactly that prefix removed.
C4_MaskDeterminism ==
    result.kind = "Ok" =>
        LET n == IF input[3] # 0 THEN 3 ELSE FrameLen(input)
        IN  /\ n <= Len(input)
            /\ Len(input) - Len(result.rest) = n
            /\ result.rest = SubSeq(input, n + 1, Len(input))

\* a decoded frame with field, scale and sign flag bytes, several delta
\* bytes, and input left over
C4_Witness ==
    /\ DecodedNonRepeat
    /\ FrameNf(input) >= 1 /\ FrameNs(input) >= 1
    /\ FrameF(input) >= 2 /\ FrameS(input) >= 1
    /\ Len(result.rest) >= 1

\* ------------------------------------------------------------------ C5
\* C5: a non-repeat frame yields a state only if its last byte plus the sum
\* of the bytes before it is 0 modulo 256.
C5_FrameChecksum ==
    DecodedNonRepeat =>
        LET n == FrameLen(input)
        IN  (input[n] + SumSeq(SubSeq(input, 1, n - 1))) % 256 = 0

\* a decoded frame that carries deltas and changes the state
C5_Witness ==
    /\ DecodedNonRepeat
    /\ FrameF(input) >= 1
    /\ result.out # prev

\* ------------------------------------------------------------------ C6
\* C6: every call returns to its caller; unequal decode bytes and a repeat
\* count above 1 are returned as errors, and no call aborts the program.
C6_ErrorsSurfaced ==
    (Called /\ FlagsAgree) =>
        /\ result.kind \in {"Ok", "Err"}
        /\ (Len(input) >= 3 /\ input[1] # input[2]) => result.kind = "Err"
        /\ (Len(input) >= 3 /\ input[1] = input[2] /\ input[3] > 1) =>
               result.kind = "Err"

\* ------------------------------------------------------------------ C8
\* the span of engine e's EGT values over the cylinders whose NA bit is
\* clear, in the state a call returned; Seeded restricts the statement to
\* value sets whose maximum is at least the -1 that emax starts from
EgtSpanHolds(e, seeded) ==
    LET valid == {c \in 0..(cyls - 1) :
                    ~test_bit_slice(result.out.naflags, e * 24 + c)}
        vals  == {result.out.data[e * 24 + c] : c \in valid}
    IN  (/\ valid # {}
         /\ InI16(SetMax(vals) - SetMin(vals))
         /\ (seeded => SetMax(vals) >= -1)) =>
            result.out.dif[e] = SetMax(vals) - SetMin(vals)

\* C8: in every state a non-repeat frame produces, dif[e] of each engine e
\* is the maximum minus the minimum of that engine's EGT values over the
\* cylinders whose NA bit is clear (engine 0: fields 0.., engine 1: 24..),
\* with one engine and with two, and reading the EGT bank of either engine
\* does not fail. Stated here for values whose maximum is at least -1 and
\* whose span is an i16; EgtSpanAnySigned below drops the first restriction.
C8_EgtSpan ==
    /\ Called => result.why # "egt_index"
    /\ DecodedNonRepeat => \A e \in 0..(engines - 1) : EgtSpanHolds(e, TRUE)

\* the span statement alone, on the values C8_EgtSpan is stated for
EgtSpanSeeded ==
    DecodedNonRepeat => \A e \in 0..(engines - 1) : EgtSpanHolds(e, TRUE)

\* the span statement for any signed values: fails when every valid EGT is
\* below -1, because emax starts from -1
EgtSpanAnySigned ==
    DecodedNonRepeat => \A e \in 0..(engines - 1) : EgtSpanHolds(e, FALSE)

\* ------------------------------------------------------------------ C9
\* C9: no field update (field delta, scale delta, rpm high-byte negation,
\* rpm merge) makes a call fail because of arithmetic overflow, and a field
\* touched only by a field delta d ends at (prior - d) or (prior + d)
\* modulo 2^16 according to its sign bit.
C9_WrapAround ==
    /\ Called => result.why \notin {"scale_overflow", "neg_overflow", "rpm_overflow"}
    /\ DecodedNonRepeat =>
           \A idx \in 0..47 :
               (FieldTouched(input, idx) /\ ~ScaleTouched(input, idx)
                   /\ idx \notin {RPM, RPM_HIGHBYTE_RCDT}) =>
                   LET d == FieldDifOf(input, idx)
                       s == test_bit(SignFlagOf(input, idx \div 8), idx % 8)
                   IN  result.out.data[idx] =
                           wrap16(prev.data[idx] + (IF s THEN 0 - d ELSE d))

\* ------------------------------------------------------------------ C10
\* C10: for the state a frame leaves when calcstuff is called, and for the
\* state the caller holds, calcstuff applied twice gives what calcstuff
\* applied once gives, whenever the first application completes.
C10_IdempotentPostCalc ==
    \A s \in {result.precalc, cur} :
        LET once == calcstuff(s, config, fheader)
        IN  ~once.panic =>
                LET twice == calcstuff(once.st, config, fheader)
                IN  ~twice.panic /\ twice.st = once.st

\* a decoded frame whose state had a non-zero rpm high byte to merge
C10_Witness ==
    /\ DecodedNonRepeat
    /\ has_rpm(fheader)
    /\ result.precalc.data[RPM_HIGHBYTE_RCDT] # 0
    /\ result.out.data[RPM] # result.precalc.data[RPM]

\* ------------------------------------------------------------------ C11
\* a field no bit of field_flags or scale_flags selects keeps its value and
\* its NA bit
Untouched(idx) == ~FieldTouched(input, idx) /\ ~ScaleTouched(input, idx)

KeepsField(idx) ==
    /\ result.out.data[idx] = prev.data[idx]
    /\ test_bit_slice(result.out.naflags, idx) = test_bit_slice(prev.naflags, idx)

\* C11: a non-repeat frame leaves every field that neither field_flags nor
\* scale_flags select, and its NA bit, as in prev; and in any configuration
\* the frame 01 01 00 01 00 10 ED decoded on a freshly initialised state
\* yields egt[0] = 0x0100 with every other field unchanged. The first part
\* is stated here for the fields other than rpm and rpm_highbyte_rcdt;
\* FrameEffectAllFields below states it for all 48.
C11_FrameEffect ==
    /\ DecodedNonRepeat =>
           \A idx \in (0..47) \ {RPM, RPM_HIGHBYTE_RCDT} :
               Untouched(idx) => KeepsField(idx)
    /\ (Called /\ FlagsAgree /\ prev = binary_record_new(config)
           /\ input = ExampleFrame \o FullTrail) =>
           /\ result.kind = "Ok"
           /\ result.out.data = [prev.data EXCEPT ![0] = 256]

\* the first part alone, which holds
FrameEffectOtherFields ==
    DecodedNonRepeat =>
        \A idx \in (0..47) \ {RPM, RPM_HIGHBYTE_RCDT} :
            Untouched(idx) => KeepsField(idx)

\* the first part for all 48 fields: fails where the rpm merge of calcstuff
\* changes an rpm field the frame does not select
FrameEffectAllFields ==
    DecodedNonRepeat => \A idx \in 0..47 : Untouched(idx) => KeepsField(idx)

\* the example frame decoded on a fresh state with one engine
ExampleDecoded ==
    /\ DecodedNonRepeat /\ engines = 1
    /\ prev = binary_record_new(config)
    /\ input = ExampleFrame \o FullTrail
    /\ result.out.data = [prev.data EXCEPT ![0] = 256]

\* ------------------------------------------------------------------ C12
\* the value and the NA bit of field idx after the frame's field deltas and
\* before its scale deltas
AfterFieldDif(idx) ==
    IF FieldTouched(input, idx)
    THEN LET d == FieldDifOf(input, idx)
             s == test_bit(SignFlagOf(input, idx \div 8), idx % 8)
         IN  [v  |-> wrap16(prev.data[idx] + (IF s THEN 0 - d ELSE d)),
              na |-> test_bit(field_na(prev.naflags[idx \div 8], idx % 8, d),
                              idx % 8)]
    ELSE [v  |-> prev.data[idx],
          na |-> test_bit_slice(prev.naflags, idx)]

\* C12: in a decoded non-repeat frame, the set bits of scale_flags[g], g in
\* 0..1 and b in 0..7 ascending, each take one byte x of scale_dif and
\* target field g*24 + b; if x # 0 the field's NA bit ends clear and the
\* field ends at its value minus (x << 8) when its bit of the 48-bit sign
\* vector is set, plus (x << 8) otherwise (modulo 2^16); if x = 0 the
\* field's value and NA bit are as the field deltas left them.
C12_ScaleDelta ==
    DecodedNonRepeat =>
        \A g \in 0..1 : \A b \in 0..7 :
            test_bit(ScaleFlagOf(input, g), b) =>
                LET idx  == g * 24 + b
                    x    == ScaleDifOf(input, idx)
                    sign == test_bit(SignFlagOf(input, idx \div 8), idx % 8)
                    base == AfterFieldDif(idx)
                    na   == test_bit_slice(result.out.naflags, idx)
                    v    == result.out.data[idx]
                IN  IF x # 0
                    THEN /\ ~na
                         /\ v = wrap16(base.v + (IF sign THEN 0 - x * 256
                                                         ELSE x * 256))
                    ELSE /\ v = base.v
                         /\ na = base.na

\* a decoded frame with three scale bits over both scale groups, a zero
\* byte between two non-zero ones, a subtracted delta, and a non-zero delta
\* on field 24
C12_Witness ==
    /\ DecodedNonRepeat
    /\ ScaleFlagOf(input, 0) = 3 /\ ScaleFlagOf(input, 1) = 1
    /\ ScaleDifOf(input, 0) # 0 /\ ScaleDifOf(input, 1) = 0
    /\ ScaleDifOf(input, 24) # 0
    /\ test_bit(SignFlagOf(input, 0), 0)
    /\ result.out.data[24] # prev.data[24]
    /\ result.out.data[0] # prev.data[0]

\* ------------------------------------------------------------------ C13
\* the NA bit of rpm (group 5, bit 1) in state st
RpmNA(st) == test_bit(st.naflags[5], 1)

\* C13: decoding a non-repeat frame with one engine and bit 1 of
\* sign_flags[5] set, the frame is rejected (no state is returned) if bit 2
\* of sign_flags[5] is set too; otherwise the state handed to calcstuff has
\* rpm_highbyte_rcdt negated after the field and scale deltas, and the NA
\* bit of rpm clear if the negated value is non-zero. With another engine
\* count, or bit 1 clear, rpm_highbyte_rcdt and the NA bit of rpm are as the
\* deltas left them.
C13_RpmQuirk ==
    /\ (/\ Called /\ FlagsAgree
        /\ HasFlags(input) /\ input[1] = input[2] /\ input[3] = 0
        /\ QuirkApplies(input)
        /\ test_bit(SignFlagOf(input, 5), 2)) => result.kind # "Ok"
    /\ DecodedNonRepeat =>
           LET hi  == AfterFieldDif(RPM_HIGHBYTE_RCDT).v
               na  == AfterFieldDif(RPM).na
               neg == wrap16(0 - hi)
           IN  IF QuirkApplies(input)
               THEN /\ result.precalc.data[RPM_HIGHBYTE_RCDT] = neg
                    /\ RpmNA(result.precalc) = (IF neg # 0 THEN FALSE ELSE na)
               ELSE /\ result.precalc.data[RPM_HIGHBYTE_RCDT] = hi
                    /\ RpmNA(result.precalc) = na

\* a decoded single-engine frame whose rpm_highbyte_rcdt delta was negated
\* to a non-zero value and whose rpm NA bit, set by the field delta, ends
\* clear
C13_Witness ==
    /\ DecodedNonRepeat
    /\ QuirkApplies(input)
    /\ AfterFieldDif(RPM).na
    /\ AfterFieldDif(RPM_HIGHBYTE_RCDT).v > 0
    /\ result.precalc.data[RPM_HIGHBYTE_RCDT] < 0
    /\ ~RpmNA(result.precalc)

\* ------------------------------------------------------------------ C7
\* the line is '$' T ',' payload '*' H H with nothing after it, no '*' in
\* the payload and two upper-case hex digits
WellFormedLine(ln) ==
    /\ Len(ln) >= 6
    /\ ln[1] = 36 /\ ln[3] = 44 /\ ln[Len(ln) - 2] = 42
    /\ \A k \in 2..(Len(ln) - 3) : ln[k] # 42
    /\ \A k \in (Len(ln) - 1)..Len(ln) :
          (ln[k] >= 48 /\ ln[k] <= 57) \/ (ln[k] >= 65 /\ ln[k] <= 70)

LinePayload(ln) == SubSeq(ln, 4, Len(ln) - 3)

HexValue(c) == IF c <= 57 THEN c - 48 ELSE c - 55

LineHH(ln) == 16 * HexValue(ln[Len(ln) - 1]) + HexValue(ln[Len(ln)])

KnownTypes == {85, 65, 70, 84, 67, 68, 76}

\* the payload is valid for the line's record type
PayloadValid(ln) ==
    ln[2] \in KnownTypes =>
        dispatch(ln[2], LinePayload(ln), ln, "Err").kind = "Ok"

EnvelopeHolds(ln) ==
    /\ fold_bitxor(SubSeq(ln, 2, Len(ln) - 3)) = LineHH(ln)
    /\ ln[2] \in KnownTypes

\* C7: for a well-formed line with a payload valid for its type,
\* parse_record succeeds exactly when the XOR of the bytes between '$' and
\* '*' equals HH and the type letter is one of U A F T C D L.
C7_EnvelopeRoundTrip ==
    (hresult.by # "none" /\ WellFormedLine(line) /\ PayloadValid(line)) =>
        (hresult.r.kind = "Ok" <=> EnvelopeHolds(line))

\* the same statement for parse_record of headers.rs alone, which holds
HeadersEnvelopeRoundTrip ==
    (hresult.by = "headers" /\ WellFormedLine(line) /\ PayloadValid(line)) =>
        (hresult.r.kind = "Ok" <=> EnvelopeHolds(line))

====
